---- MODULE Spec2Model ----
(***************************************************************************)
(* Model of pogom/schedulers.py: BaseScheduler, HexSearch and               *)
(* SpawnOnlyHexSearch, one scheduler instance driven by one control thread  *)
(* while worker threads take items from the same queues.                    *)
(*                                                                          *)
(* Coordinates live on an integer hex lattice: longitude in half-column     *)
(* units (xdist = 2), latitude in row units (ydist = 1).                    *)
(***************************************************************************)
EXTENDS Integers, Sequences, FiniteSets, TLC

(* ----------------------------- bounds ---------------------------------- *)
MaxStepLimit == 2          \* args.step_limit ranges over 1..MaxStepLimit
NumQueues    == 2          \* size of the queue set handed to the scheduler
NumWorkers   == 1          \* consumers taking items from the queues
MaxBacklog   == 2          \* schedule() is called only while queue 0 holds at most this many items
BoundedSize  == 3          \* maxsize of the queues when they are fixed-size
MaxGenStepLimit == 4       \* step_limit of the generator taken alone ranges over 1..MaxGenStepLimit
MaxDrainStepLimit == 1     \* step_limit where the drain is followed to its end ranges over 1..MaxDrainStepLimit

Queues  == 1..NumQueues    \* queues[1] is the source's self.queues[0]
Workers == 1..NumWorkers
Locs    == { <<0, 0, 0>>, <<2, 0, 0>> }             \* scan_location arguments
SpawnUniverse == { <<0, 1>>, <<1, -1>> }            \* known spawnpoints (lat, lng) the store may hold
Variants == { "HexSearch", "SpawnOnlyHexSearch" }

(* ------------------------- Python values ------------------------------- *)
\* the sentinel False the source stores in scan_location and locations
PyFalse == [isFalse |-> TRUE, val |-> <<>>]
Py(v)   == [isFalse |-> FALSE, val |-> v]
\* Python truthiness: False and empty sequences are falsy
Truthy(o) == (~o.isFalse) /\ o.val # <<>>

Range(s) == { s[i] : i \in 1..Len(s) }

(* --------------------------- geo primitive ----------------------------- *)
NORTH == 0
EAST  == 90
SOUTH == 180
WEST  == 270

xdist == 2     \* distance between column centers, in half-columns
ydist == 1     \* distance between row centers, in rows

\* loc = <<lat, lng, alt>>; exact step on the lattice
get_new_coords(loc, dist, bearing) ==
    CASE bearing = NORTH -> <<loc[1] + dist, loc[2], loc[3]>>
      [] bearing = SOUTH -> <<loc[1] - dist, loc[2], loc[3]>>
      [] bearing = EAST  -> <<loc[1], loc[2] + dist, loc[3]>>
      [] bearing = WEST  -> <<loc[1], loc[2] - dist, loc[3]>>

(* ------------------- HexSearch._generate_locations --------------------- *)
\* walk state: current loc and the results list
Go(st, dist, bearing) == [st EXCEPT !.loc = get_new_coords(st.loc, dist, bearing)]
Emit(st) == [st EXCEPT !.results = Append(st.results, <<st.loc[1], st.loc[2], 0>>)]

RECURSIVE GoAll(_, _)
GoAll(st, moves) ==
    IF moves = <<>> THEN st
    ELSE GoAll(Go(st, moves[1][1], moves[1][2]), Tail(moves))

\* for i in range(n): <moves>; results.append(loc)
\* (st.loc is read on entry so that the walk so far is computed before the
\* next pass of the loop, not piled up until the end; a loc is never <<>>)
RECURSIVE Leg(_, _, _)
Leg(st, n, moves) ==
    IF n <= 0 \/ st.loc = <<>> THEN st ELSE Leg(Emit(GoAll(st, moves)), n - 1, moves)

\* the direction never alternates
Odd_always(ring) == TRUE
\* ring % 2 == 1
Odd(ring) == ring % 2 = 1

\* one pass of the body of the "upper part" while loop
UpperRing(st, ring) ==
    LET a == IF Odd(ring) THEN WEST ELSE EAST
        b == IF Odd(ring) THEN EAST ELSE WEST
        s1 == Emit(Go(st, xdist, a))
        s2 == Leg(s1, ring, << <<ydist, NORTH>>, <<xdist \div 2, b>> >>)
        s3 == Leg(s2, ring, << <<xdist, b>> >>)
    IN  Leg(s3, ring, << <<ydist, SOUTH>>, <<xdist \div 2, b>> >>)

RECURSIVE Upper(_, _, _)
Upper(st, ring, limit) ==
    IF ring < limit THEN Upper(UpperRing(st, ring), ring + 1, limit) ELSE st

\* one pass of the body of the "lower part" while loop
LowerRing(st, ring) ==
    LET a == IF Odd(ring) THEN WEST ELSE EAST
        b == IF Odd(ring) THEN EAST ELSE WEST
    IN  IF ring = 1
        THEN Emit(Go(st, xdist, WEST))
        ELSE LET s1 == Leg(st, ring - 1, << <<ydist, SOUTH>>, <<xdist \div 2, a>> >>)
                 s2 == Leg(s1, ring, << <<xdist, a>> >>)
                 s3 == Leg(s2, ring - 1, << <<ydist, NORTH>>, <<xdist \div 2, a>> >>)
             IN  Emit(Go(s3, xdist, b))

RECURSIVE Lower(_, _)
Lower(st, ring) ==
    IF ring > 0 THEN Lower(LowerRing(st, ring), ring - 1) ELSE st

\* the results list before the rotation
RawSpiral(center, limit) ==
    LET s0 == [loc |-> center, results |-> << <<center[1], center[2], 0>> >>]
    IN  IF limit > 1
        THEN LET up   == Upper(s0, 1, limit)
                 ring == limit - 1
                 dn   == Emit(Go(Go(up, ydist, SOUTH), xdist \div 2,
                                 IF Odd(ring) THEN WEST ELSE EAST))
             IN  Lower(dn, ring).results
        ELSE s0.results

\* results[-k:] + results[:-k-1]: the element before the cut is lost
RotateLast_drop(s, k) ==
    SubSeq(s, Len(s) - k + 1, Len(s)) \o SubSeq(s, 1, Len(s) - k - 1)
\* results[-k:] + results[:-k]
RotateLast(s, k) ==
    SubSeq(s, Len(s) - k + 1, Len(s)) \o SubSeq(s, 1, Len(s) - k)

\* the step_limit == 3 case forgotten: 7 places whenever there is a rotation
Rotated_seven(results, limit) ==
    IF limit >= 3 THEN RotateLast(results, 7) ELSE results
\* if self.step_limit >= 3: ... results[-2:] + results[:-2] or results[-7:] + results[:-7]
Rotated(results, limit) ==
    IF limit >= 3
    THEN IF limit = 3 THEN RotateLast(results, 2) ELSE RotateLast(results, 7)
    ELSE results

\* enumerate(results): the count starts at 0
enumerate_from_zero(i) == i - 1
\* enumerate(results, 1): the step of the i-th element, i counted from 1
enumerate_step(i) == i

\* (step, (lat, lng, 0), appears_seconds, disappears_seconds)
locationsZeroed(results) ==
    [ i \in 1..Len(results) |->
        << enumerate_step(i), <<results[i][1], results[i][2], 0>>, 0, 0 >> ]

Hex_generate_locations(center, limit) ==
    locationsZeroed(Rotated(RawSpiral(center, limit), limit))

(* ---------------- SpawnOnlyHexSearch._generate_locations --------------- *)
\* hex_bounds(center, steps): n, e, s, w of the rectangle around the spiral
hex_bounds(center, steps) ==
    [ n |-> center[1] + (steps - 1), e |-> center[2] + 2 * (steps - 1),
      s |-> center[1] - (steps - 1), w |-> center[2] - 2 * (steps - 1) ]

\* Pokemon.get_spawnpoints(s, w, n, e) over the store contents db
get_spawnpoints(db, s, w, n, e) ==
    { p \in db : s <= p[1] /\ p[1] <= n /\ w <= p[2] /\ p[2] <= e }

Abs(x) == IF x < 0 THEN -x ELSE x

\* geopy.distance.distance(coords, x).meters <= 70: rows are 105 m apart and
\* half-columns 60.6 m, so only the same row at most one half-column away
within70(coords, x) == coords[1] = x[1] /\ Abs(coords[2] - x[2]) <= 1

\* all() in place of any(): true of an empty set of spawnpoints
_all_spawnpoints_in_range(coords, spawnpoints) ==
    \A x \in spawnpoints : within70(coords, x)
\* any(geopy.distance.distance(coords, x).meters <= 70 for x in spawnpoints)
_any_spawnpoints_in_range(coords, spawnpoints) ==
    \E x \in spawnpoints : within70(coords, x)

\* the list comprehension without its condition: every location is kept
SelectItems_all(s, spawnpoints) == s
\* [loc for loc in locations if self._any_spawnpoints_in_range(loc[1], spawnpoints)]
RECURSIVE SelectItems(_, _)
SelectItems(s, spawnpoints) ==
    IF s = <<>> THEN <<>>
    ELSE IF _any_spawnpoints_in_range(s[1][2], spawnpoints)
         THEN <<s[1]>> \o SelectItems(Tail(s), spawnpoints)
         ELSE SelectItems(Tail(s), spawnpoints)

\* n, e, s, w = hex_bounds(...); spawnpoints = set(... get_spawnpoints(s, w, n, e))
spawnpoints_returned(center, limit, db) ==
    LET b == hex_bounds(center, limit)
    IN  get_spawnpoints(db, b.s, b.w, b.n, b.e)

SpawnOnly_generate_locations(center, limit, db) ==
    SelectItems(Hex_generate_locations(center, limit), spawnpoints_returned(center, limit, db))

\* self._generate_locations(), dispatched on the scheduler's class
_generate_locations(v, center, limit, db) ==
    IF v = "SpawnOnlyHexSearch"
    THEN SpawnOnly_generate_locations(center, limit, db)
    ELSE Hex_generate_locations(center, limit)

(* ------------------------------ queues --------------------------------- *)
\* Queue.put blocks while a fixed-size queue is full (maxsize 0: unbounded)
Full(q, size) == size > 0 /\ Len(q) >= size
\* a LIFO queue: the item goes to the front
put_front(q, item) == <<item>> \o q
\* a one-slot queue: the item replaces what was queued
put_replace(q, item) == <<item>>
put(q, item) == Append(q, item)
\* the test without its "not": only empty queues are emptied
queue_empty_inverted(q) == q # <<>>
\* queue.empty()
queue_empty(q) == q = <<>>
\* queue.get_nowait() on a non-empty queue: the item returned, the queue left
get_nowait_item(q) == Head(q)
get_nowait_rest(q) == Tail(q)
\* queue.get(): on an empty queue the caller waits for an item
get_blocks == TRUE
\* queue.get_nowait(): on an empty queue Empty is raised at once
get_nowait_blocks == FALSE

(* ------------------------------- state --------------------------------- *)
VARIABLES
    variant,        \* class of the scheduler instance
    step_limit,     \* self.step_limit
    maxsize,        \* maxsize of the queues of the queue set
    scan_location,  \* self.scan_location
    locations,      \* self.locations
    queues,         \* self.queues
    pc,             \* position of the control thread
    op,             \* the call in flight, or the last one when pc = "idle"
    qi,             \* empty_queues: index of the queue being emptied
    li,             \* schedule: index of the next location to put
    raised,         \* exception the last call propagated to its caller
    lastGet,        \* the last item a worker took: who, what, and whether after a completed location_changed
    expect,         \* per queue: its contents if every put added one item at the back and every get took one from the front
    startEmpty,     \* queue 0 was empty when the call started
    gets,           \* a worker has taken an item since the call started
    discarded,      \* the last empty_queues has dropped an item
    pushed,         \* items put by the call
    genInCall,      \* the call invoked _generate_locations
    centerAtCall,   \* self.scan_location when the call started
    cacheAtCall,    \* self.locations when the call started
    planProduced,   \* _generate_locations has returned a plan since the last location_changed
    regenerated,    \* ... and was invoked again after that
    firstAfterLC,   \* "pending" after a location_changed, "first" from the first schedule() on, "later" from the next
    lcComplete,     \* a location_changed has returned and none is in flight
    lcPrior,        \* the last location_changed: its argument, and the center and cache it found
    unsetCalls,     \* schedule() was called with no center, and no schedule() has put its plan since
    results,        \* _generate_locations: the list the walk builds, then rotated
    raw,            \* results as the walk left it, before the rotation
    hexLocations,   \* what HexSearch._generate_locations returned
    spawnpoints,    \* SpawnOnlyHexSearch._generate_locations: what get_spawnpoints returned
    pausedBefore,   \* scanning_paused / scanning_unpause: the call before was a scanning_paused;
                    \* schedule: the two calls before were scanning_paused, scanning_unpause
    quota,          \* items queued when the last empty_queues started, less the items it has dropped
    streak          \* schedule() calls that have put the plan since queue 0 was empty, no item taken since

prog   == <<variant, step_limit, maxsize, scan_location, locations, queues>>
config == <<variant, step_limit, maxsize>>
calls  == <<startEmpty, centerAtCall, cacheAtCall, pausedBefore>>
walk   == <<results, raw, hexLocations>>
locals == <<walk, spawnpoints>>
ghost  == <<lastGet, expect, startEmpty, gets, discarded, pushed, genInCall, centerAtCall,
            cacheAtCall, planProduced, regenerated, firstAfterLC, lcComplete, lcPrior,
            unsetCalls, pausedBefore, quota, streak>>
vars   == <<variant, step_limit, maxsize, scan_location, locations, queues,
            pc, op, qi, li, raised,
            lastGet, expect, startEmpty, gets, discarded, pushed, genInCall, centerAtCall,
            cacheAtCall, planProduced, regenerated, firstAfterLC, lcComplete, lcPrior,
            unsetCalls, results, raw, hexLocations, spawnpoints, pausedBefore, quota, streak>>

\* BaseScheduler.__init__ / HexSearch.__init__
InitScanLocation == PyFalse
InitLocations    == PyFalse

\* nothing has been called yet
InitRest ==
    /\ locations = InitLocations
    /\ queues = [q \in Queues |-> <<>>]
    /\ op = "init" /\ qi = 0 /\ li = 0 /\ raised = "none"
    /\ lastGet = [by |-> 0, item |-> <<>>, fresh |-> FALSE]
    /\ expect = [q \in Queues |-> <<>>]
    /\ startEmpty = TRUE /\ gets = FALSE /\ discarded = FALSE /\ pushed = 0
    /\ genInCall = FALSE /\ centerAtCall = PyFalse /\ cacheAtCall = PyFalse
    /\ planProduced = FALSE /\ regenerated = FALSE /\ firstAfterLC = "none"
    /\ lcComplete = FALSE /\ unsetCalls = FALSE
    /\ lcPrior = [arg |-> <<>>, center |-> PyFalse, cached |-> FALSE]
    /\ results = <<>> /\ raw = <<>> /\ hexLocations = <<>> /\ spawnpoints = {}
    /\ pausedBefore = FALSE /\ quota = 0 /\ streak = 0

Init ==
    /\ variant \in Variants
    /\ step_limit \in 1..MaxStepLimit
    /\ maxsize \in {0, BoundedSize}
    /\ scan_location = InitScanLocation
    /\ pc = "idle"
    /\ InitRest

\* items queued over the whole queue set
RECURSIVE QueuedUpTo(_, _)
QueuedUpTo(qs, n) == IF n = 0 THEN 0 ELSE Len(qs[n]) + QueuedUpTo(qs, n - 1)
Queued(qs) == QueuedUpTo(qs, NumQueues)

\* the streak of a schedule() call that puts the plan
StreakNext == IF queues[1] = <<>> THEN 1 ELSE IF streak > 0 THEN streak + 1 ELSE 0

\* bookkeeping common to the start of every call
CallStart(name) ==
    /\ pc = "idle"
    /\ op' = name
    /\ pausedBefore' = CASE name \in {"scanning_paused", "scanning_unpause"} ->
                               op = "scanning_paused"
                          [] name = "schedule" -> op = "scanning_unpause" /\ pausedBefore
                          [] OTHER -> FALSE
    /\ startEmpty' = (queues[1] = <<>>)
    /\ gets' = FALSE
    /\ pushed' = 0
    /\ centerAtCall' = scan_location
    /\ cacheAtCall' = locations

(* ------------------------- HexSearch.schedule -------------------------- *)
\* "if self.scan_location is None": never true of the initial False
no_scan_location_is_None(s) == FALSE
\* if not self.scan_location
no_scan_location(s) == ~Truthy(s)
\* if not self.locations
no_locations(l) == ~Truthy(l)
\* a generator that builds its list in self.locations leaves what it had built
locations_on_failure_partial(l, partial) == Py(partial)
\* self.locations when _generate_locations raises: the assignment never runs
locations_on_failure(l, partial) == l

ScheduleStart ==
    /\ CallStart("schedule")
    /\ Len(queues[1]) <= MaxBacklog
    /\ firstAfterLC' = CASE firstAfterLC = "pending" -> "first"
                          [] firstAfterLC = "first"   -> "later"
                          [] OTHER                    -> firstAfterLC
    /\ quota' = 0
    /\ UNCHANGED <<config, walk, scan_location, queues, qi,
                   lastGet, expect, discarded, lcComplete, lcPrior>>

\* no center: log a warning and return
schedule_unset ==
    /\ ScheduleStart
    /\ no_scan_location(scan_location)
    /\ raised' = "none"
    /\ genInCall' = FALSE
    /\ unsetCalls' = TRUE
    /\ streak' = 0
    /\ UNCHANGED <<locations, pc, li, planProduced, regenerated, spawnpoints>>

\* no usable cached list: _generate_locations returns and its result is stored
schedule_generate ==
    /\ ScheduleStart
    /\ ~no_scan_location(scan_location)
    /\ no_locations(locations)
    /\ ~scan_location.isFalse
    /\ \E db \in SUBSET SpawnUniverse :
          /\ locations' = Py(_generate_locations(variant, scan_location.val, step_limit, db))
          /\ spawnpoints' = IF variant = "SpawnOnlyHexSearch"
                            THEN spawnpoints_returned(scan_location.val, step_limit, db)
                            ELSE spawnpoints
    /\ streak' = StreakNext
    /\ raised' = "none"
    /\ genInCall' = TRUE
    /\ planProduced' = TRUE
    /\ regenerated' = (regenerated \/ planProduced)
    /\ pc' = "put" /\ li' = 1
    /\ UNCHANGED unsetCalls

\* _generate_locations raises: get_new_coords, hex_bounds or the spawnpoint
\* store fails, or self.scan_location[0] is evaluated on False
schedule_generate_fails ==
    /\ ScheduleStart
    /\ ~no_scan_location(scan_location)
    /\ no_locations(locations)
    /\ IF scan_location.isFalse
       THEN /\ raised' = "TypeError"
            /\ locations' = locations_on_failure(locations, <<>>)
       ELSE /\ raised' = "GeneratorError"
            /\ \E k \in {0, 1} :
                 locations' = locations_on_failure(locations,
                     SubSeq(Hex_generate_locations(scan_location.val, step_limit), 1, k))
    /\ genInCall' = TRUE
    /\ regenerated' = (regenerated \/ planProduced)
    /\ streak' = 0
    /\ UNCHANGED <<pc, li, planProduced, unsetCalls, spawnpoints>>

\* the cached list is reused
schedule_cached ==
    /\ ScheduleStart
    /\ ~no_scan_location(scan_location)
    /\ ~no_locations(locations)
    /\ raised' = "none"
    /\ genInCall' = FALSE
    /\ pc' = "put" /\ li' = 1
    /\ streak' = StreakNext
    /\ UNCHANGED <<locations, planProduced, regenerated, unsetCalls, spawnpoints>>

\* the plan goes to the last queue of the set
schedule_queue_last == NumQueues
\* self.queues[0]
schedule_queue == 1

\* self.queues[0].put(location): waits while the queue is full
schedule_put ==
    /\ pc = "put"
    /\ li <= Len(locations.val)
    /\ ~Full(queues[1], maxsize)
    /\ queues' = [queues EXCEPT ![schedule_queue] = put(@, locations.val[li])]
    /\ expect' = [expect EXCEPT ![1] = Append(@, locations.val[li])]
    /\ li' = li + 1
    /\ pushed' = pushed + 1
    /\ UNCHANGED <<config, locals, scan_location, locations, pc, op, qi, raised, calls,
                   lastGet, gets, discarded, genInCall, planProduced, regenerated,
                   firstAfterLC, lcComplete, lcPrior, unsetCalls, quota, streak>>

\* the for loop is exhausted
schedule_return ==
    /\ pc = "put"
    /\ li > Len(locations.val)
    /\ pc' = "idle"
    /\ unsetCalls' = FALSE
    /\ UNCHANGED <<prog, locals, op, qi, li, raised, calls,
                   lastGet, expect, gets, discarded, pushed, genInCall, planProduced,
                   regenerated, firstAfterLC, lcComplete, lcPrior, quota, streak>>

(* ---------------------- HexSearch.location_changed --------------------- *)
\* the assignment forgotten: the old center stays
lc_scan_location_stale(old, new) == old
\* self.scan_location = scan_location
lc_scan_location(old, new) == Py(new)
\* the reset forgotten (BaseScheduler.location_changed): the cached list stays
lc_locations_kept(l) == l
\* self.locations = False
lc_locations(l) == PyFalse

\* scanning_paused implemented as a location_changed to the same center
clears_locations_on_pause(o) == o \in {"location_changed", "scanning_paused"}
\* the calls that end with self.locations = False
clears_locations(o) == o = "location_changed"

DrainStart(name) ==
    /\ CallStart(name)
    /\ pc' = "drain_check" /\ qi' = 1
    /\ raised' = "none"
    /\ discarded' = FALSE
    /\ genInCall' = FALSE
    /\ quota' = Queued(queues)
    /\ streak' = 0
    /\ UNCHANGED <<config, locals, locations, queues, li, expect, unsetCalls>>

location_changed_call ==
    /\ DrainStart("location_changed")
    /\ \E new \in Locs :
          /\ scan_location' = lc_scan_location(scan_location, new)
          /\ lcPrior' = [arg |-> new, center |-> scan_location, cached |-> Truthy(locations)]
    /\ planProduced' = FALSE /\ regenerated' = FALSE /\ firstAfterLC' = "pending"
    /\ lcComplete' = FALSE
    /\ lastGet' = [lastGet EXCEPT !.fresh = FALSE]

(* --------------------- BaseScheduler.scanning_paused ------------------- *)
scanning_paused_call ==
    /\ DrainStart("scanning_paused")
    /\ UNCHANGED <<scan_location, lastGet, planProduced, regenerated, firstAfterLC,
                   lcComplete, lcPrior>>

(* --------------------- BaseScheduler.scanning_unpause ------------------ *)
scanning_unpause ==
    /\ CallStart("scanning_unpause")
    /\ raised' = "none"
    /\ genInCall' = FALSE
    /\ quota' = 0
    /\ streak' = 0
    /\ UNCHANGED <<prog, locals, pc, qi, li, lastGet, expect, discarded, planProduced,
                   regenerated, firstAfterLC, lcComplete, lcPrior, unsetCalls>>

(* ----------------------- BaseScheduler.empty_queues -------------------- *)
\* no except clause: Empty leaves empty_queues
drain_on_Empty_uncaught == "propagated"
\* what the except clause does with the Empty that get_nowait raises
drain_on_Empty == "caught"

\* for queue in self.queues: if not queue.empty()
drain_check ==
    /\ pc = "drain_check"
    /\ qi <= NumQueues
    /\ IF queue_empty(queues[qi])
       THEN pc' = pc /\ qi' = qi + 1
       ELSE pc' = "drain_get" /\ qi' = qi
    /\ UNCHANGED <<prog, locals, op, li, raised, ghost>>

\* while True: queue.get_nowait(), the item is dropped
drain_get ==
    /\ pc = "drain_get"
    /\ queues[qi] # <<>>
    /\ queues' = [queues EXCEPT ![qi] = get_nowait_rest(@)]
    /\ expect' = [expect EXCEPT ![qi] = Tail(@)]
    /\ discarded' = TRUE
    /\ quota' = quota - 1
    /\ UNCHANGED <<config, locals, scan_location, locations, pc, op, qi, li, raised, calls,
                   lastGet, gets, pushed, genInCall, planProduced, regenerated,
                   firstAfterLC, lcComplete, lcPrior, unsetCalls, streak>>

\* get_nowait raises Empty: the queue is done, or the exception leaves the call
drain_Empty ==
    /\ pc = "drain_get"
    /\ queues[qi] = <<>>
    /\ ~get_nowait_blocks
    /\ IF drain_on_Empty = "caught"
       THEN pc' = "drain_check" /\ qi' = qi + 1 /\ raised' = raised
       ELSE pc' = "idle" /\ qi' = qi /\ raised' = "Empty"
    /\ UNCHANGED <<prog, locals, op, li, ghost>>

\* the loop over the queues is over: location_changed clears the cached list
drain_return ==
    /\ pc = "drain_check"
    /\ qi > NumQueues
    /\ pc' = "idle"
    /\ IF clears_locations(op)
       THEN locations' = lc_locations(locations)
       ELSE locations' = locations
    /\ lcComplete' = IF op = "location_changed" THEN TRUE ELSE lcComplete
    /\ UNCHANGED <<config, locals, scan_location, queues, op, qi, li, raised, calls,
                   lastGet, expect, gets, discarded, pushed, genInCall, planProduced,
                   regenerated, firstAfterLC, lcPrior, unsetCalls, quota, streak>>

(* ------------------------------- workers ------------------------------- *)
\* a worker takes the head of a queue without waiting
worker_get ==
    \E w \in Workers : \E q \in Queues :
       /\ queues[q] # <<>>
       /\ lastGet' = [by |-> w, item |-> get_nowait_item(queues[q]), fresh |-> lcComplete]
       /\ queues' = [queues EXCEPT ![q] = get_nowait_rest(@)]
       /\ expect' = [expect EXCEPT ![q] = Tail(@)]
       /\ gets' = TRUE
       /\ streak' = 0
       /\ UNCHANGED <<config, locals, scan_location, locations, pc, op, qi, li, raised, calls,
                      discarded, pushed, genInCall, planProduced, regenerated,
                      firstAfterLC, lcComplete, lcPrior, unsetCalls, quota>>

Next ==
    \/ schedule_unset
    \/ schedule_generate
    \/ schedule_generate_fails
    \/ schedule_cached
    \/ schedule_put
    \/ schedule_return
    \/ location_changed_call
    \/ scanning_paused_call
    \/ scanning_unpause
    \/ drain_check
    \/ drain_get
    \/ drain_Empty
    \/ drain_return
    \/ worker_get

Spec == Init /\ [][Next]_vars

(* ------------------------ the drain, scheduled ------------------------- *)
\* the steps of empty_queues: the control thread runs them itself, and a
\* thread that can run is eventually run
empty_queues_step ==
    \/ drain_check
    \/ drain_get
    \/ drain_Empty
    \/ drain_return

\* HexSearch on unbounded queues: BaseScheduler.empty_queues is the same
\* code for every class and queue size
InitDrain ==
    /\ variant = "HexSearch"
    /\ step_limit \in 1..MaxDrainStepLimit
    /\ maxsize = 0
    /\ scan_location = InitScanLocation
    /\ pc = "idle"
    /\ InitRest

SpecDrain == InitDrain /\ [][Next]_vars /\ WF_vars(empty_queues_step)

(* ------------------ _generate_locations, step by step ------------------ *)
\* one call of self._generate_locations() on a scheduler with a center, for
\* step_limit in 1..MaxGenStepLimit; pc is the position inside the call
InitGen ==
    /\ variant \in Variants
    /\ step_limit \in 1..MaxGenStepLimit
    /\ maxsize = 0
    /\ scan_location \in { Py(c) : c \in Locs }
    /\ pc = "gen_call"
    /\ InitRest

\* SpawnOnlyHexSearch first asks the store for the spawnpoints inside
\* hex_bounds; both classes then run HexSearch._generate_locations
gen_call ==
    /\ pc = "gen_call"
    /\ IF variant = "SpawnOnlyHexSearch"
       THEN \E db \in SUBSET SpawnUniverse :
               spawnpoints' = spawnpoints_returned(scan_location.val, step_limit, db)
       ELSE spawnpoints' = spawnpoints
    /\ pc' = "gen_walk"
    /\ UNCHANGED <<prog, walk, op, qi, li, raised, ghost>>

\* the upper and the lower part of the walk
gen_walk ==
    /\ pc = "gen_walk"
    /\ results' = RawSpiral(scan_location.val, step_limit)
    /\ raw' = results'
    /\ pc' = "gen_rotate"
    /\ UNCHANGED <<prog, hexLocations, spawnpoints, op, qi, li, raised, ghost>>

\* "shift the last few moves to the beginning"
gen_rotate ==
    /\ pc = "gen_rotate"
    /\ results' = Rotated(results, step_limit)
    /\ pc' = "gen_enumerate"
    /\ UNCHANGED <<prog, raw, hexLocations, spawnpoints, op, qi, li, raised, ghost>>

\* the steps are numbered and the list is returned
gen_enumerate ==
    /\ pc = "gen_enumerate"
    /\ hexLocations' = locationsZeroed(results)
    /\ pc' = "gen_return"
    /\ UNCHANGED <<prog, results, raw, spawnpoints, op, qi, li, raised, ghost>>

\* SpawnOnlyHexSearch filters the list; the caller stores what it gets
gen_return ==
    /\ pc = "gen_return"
    /\ locations' = IF variant = "SpawnOnlyHexSearch"
                    THEN Py(SelectItems(hexLocations, spawnpoints))
                    ELSE Py(hexLocations)
    /\ pc' = "gen_done"
    /\ UNCHANGED <<config, locals, scan_location, queues, op, qi, li, raised, ghost>>

NextGen ==
    \/ gen_call
    \/ gen_walk
    \/ gen_rotate
    \/ gen_enumerate
    \/ gen_return

SpecGen == InitGen /\ [][NextGen]_vars

TypeOK ==
    /\ variant \in Variants
    /\ step_limit \in 1..MaxStepLimit \cup 1..MaxGenStepLimit \cup 1..MaxDrainStepLimit
    /\ maxsize \in {0, BoundedSize}
    /\ pc \in {"idle", "put", "drain_check", "drain_get",
              "gen_call", "gen_walk", "gen_rotate", "gen_enumerate", "gen_return", "gen_done"}
    /\ op \in {"init", "schedule", "location_changed", "scanning_paused", "scanning_unpause"}
    /\ raised \in {"none", "GeneratorError", "TypeError", "Empty"}
    /\ scan_location \in {PyFalse} \cup { Py(c) : c \in Locs }

(* ------------------------------- claims -------------------------------- *)
\* number of points of the spiral of step_limit rings
SpiralSize(n) == 1 + 3 * n * (n - 1)
\* the items of the plans HexSearch generates, by center and step_limit
HexPlanItems ==
    [c \in Locs |-> [n \in 1..MaxStepLimit |-> Range(Hex_generate_locations(c, n))]]
\* the items of the plan HexSearch generates for a center
PlanItemsFor(center) == HexPlanItems[center][step_limit]
QueuesEmpty == \A q \in Queues : queues[q] = <<>>
Draining == op \in {"location_changed", "scanning_paused"}

\* C1: between two location_changed calls, once _generate_locations has
\* returned a plan to a schedule() call, no later schedule() call invokes it
\* again, for either class and whatever plan it returned.
C1_GeneratedOncePerLocation == ~regenerated

\* C2: the first schedule() call after a location_changed call invokes
\* _generate_locations, whatever the state before the location_changed and
\* also when the new center equals the old one.
C2_RegeneratesAfterLocationChanged ==
    (op = "schedule" /\ firstAfterLC = "first") => genInCall

\* C2 witness: a list was cached, location_changed was called with the same
\* center, and the next schedule() generated again.
C2_Witness ==
    /\ op = "schedule" /\ firstAfterLC = "first" /\ genInCall /\ raised = "none"
    /\ lcPrior.cached /\ lcPrior.center = scan_location

\* C3: when location_changed(newLoc) has returned, scan_location is newLoc,
\* the cached list is absent (False) and every queue is empty.
C3_LocationChangedPost ==
    (op = "location_changed" /\ pc = "idle") =>
        /\ scan_location = Py(lcPrior.arg)
        /\ locations = PyFalse
        /\ QueuesEmpty

\* C3 witness: location_changed returned after replacing a different center
\* that had a cached list, and after dropping queued items.
C3_Witness ==
    /\ op = "location_changed" /\ pc = "idle" /\ discarded
    /\ lcPrior.cached /\ ~lcPrior.center.isFalse /\ lcPrior.center # scan_location

\* C4: an item a worker has taken after location_changed(newLoc) returned, and
\* before the next location_changed call, belongs to the plan of newLoc; and
\* a worker that has taken an item still holds it, whatever the scheduler has
\* done since.
C4_NoStaleItemAfterLocationChanged ==
    /\ lastGet.fresh =>
          /\ ~scan_location.isFalse
          /\ lastGet.item \in PlanItemsFor(scan_location.val)
    /\ lastGet.by # 0 => lastGet.item # <<>>

\* C4 witness: location_changed moved the center and dropped queued items of
\* the old plan, then schedule() ran and a worker took an item.
C4_Witness ==
    /\ lastGet.fresh /\ op = "schedule" /\ firstAfterLC = "first" /\ discarded
    /\ lcPrior.cached /\ ~lcPrior.center.isFalse /\ lcPrior.center # scan_location

\* C5: while empty_queues runs with workers taking items from the same queues,
\* and after it, no exception has left the call, every removal took exactly the
\* one item at the head (no item is handed out twice or lost), and once the
\* call has returned every queue is empty.
C5_DrainWithConsumers ==
    Draining =>
        /\ raised = "none"
        /\ queues = expect
        /\ pc = "idle" => QueuesEmpty

\* C5 witness: a drain has returned in which both the drain and a worker
\* removed items.
C5_Witness == Draining /\ pc = "idle" /\ discarded /\ gets

\* C6: schedule() never waits on the queue: it is never at a put on a full
\* queue, fixed-size queues included.
C6_ScheduleNeverWaits ==
    ~(pc = "put" /\ li <= Len(locations.val) /\ Full(queues[1], maxsize))

\* C7: schedule() with no center set returns normally, puts nothing, leaves
\* every queue as it is, does not invoke _generate_locations and leaves the
\* cached list absent; a schedule() after the center was set later generates
\* and puts its plan.
C7_ScheduleWithoutCenter ==
    /\ (op = "schedule" /\ centerAtCall = PyFalse) =>
          /\ pc = "idle" /\ raised = "none"
          /\ pushed = 0 /\ queues = expect
          /\ ~genInCall /\ locations = PyFalse
    /\ (op = "schedule" /\ unsetCalls /\ ~centerAtCall.isFalse) =>
          /\ genInCall
          /\ raised = "none" =>
                /\ pc = "put" /\ ~locations.isFalse
                /\ pushed = li - 1 /\ li <= Len(locations.val) + 1

\* C7 witness: after a schedule() with no center, the center was set and a
\* schedule() has put its whole plan.
C7_Witness ==
    /\ unsetCalls /\ op = "schedule" /\ ~centerAtCall.isFalse
    /\ pc = "put" /\ li > Len(locations.val) /\ pushed > 0

\* C8: when _generate_locations raises during schedule(), the exception
\* reaches the caller, self.locations is what it was (no usable list, nothing
\* partial), and the call has put nothing in any queue.
C8_GeneratorFailure ==
    (op = "schedule" /\ raised # "none") =>
        /\ pc = "idle" /\ genInCall
        /\ locations = cacheAtCall /\ ~Truthy(locations)
        /\ pushed = 0 /\ queues = expect

\* C8 witness: a schedule() call ended with the generator's exception.
C8_Witness == op = "schedule" /\ raised = "GeneratorError" /\ pc = "idle"

\* C9: after schedule() has run with a center set on an empty queue 0, and
\* while no worker has taken an item, queue 0 holds exactly the cached plan in
\* plan order (HexSearch with step_limit 2: 7 items with steps 1..7).
C9_QueueHoldsPlanInOrder ==
    (op = "schedule" /\ pc = "idle" /\ raised = "none" /\ ~centerAtCall.isFalse
        /\ startEmpty /\ ~gets) =>
        /\ queues[1] = locations.val
        /\ (variant = "HexSearch" /\ step_limit = 2) =>
              /\ Len(queues[1]) = 7
              /\ \A i \in 1..7 : queues[1][i][1] = i

\* C9 witness: HexSearch with step_limit 2 has put its 7 items on the empty queue.
C9_Witness ==
    /\ op = "schedule" /\ pc = "idle" /\ raised = "none" /\ ~centerAtCall.isFalse
    /\ startEmpty /\ ~gets
    /\ variant = "HexSearch" /\ step_limit = 2 /\ Len(queues[1]) = 7

\* C10 as claimed: in every cached plan, of either class, the i-th item has
\* step i and both time fields are 0.
C10_StepIsIndex ==
    ~locations.isFalse =>
        \A i \in 1..Len(locations.val) :
            /\ locations.val[i][1] = i
            /\ locations.val[i][3] = 0 /\ locations.val[i][4] = 0

\* C10 amended: in every cached plan and every queued item both time fields
\* are 0 and the step lies in 1..SpiralSize(step_limit); the steps of a plan
\* increase strictly; in a HexSearch plan the i-th item has step i, while a
\* SpawnOnlyHexSearch plan keeps the steps of the unfiltered spiral.
C10_StepsOfPlan ==
    /\ ~locations.isFalse =>
          LET plan == locations.val IN
          /\ \A i \in 1..Len(plan) :
                /\ plan[i][1] \in 1..SpiralSize(step_limit)
                /\ plan[i][3] = 0 /\ plan[i][4] = 0
                /\ variant = "HexSearch" => plan[i][1] = i
          /\ \A i \in 1..Len(plan) - 1 : plan[i][1] < plan[i + 1][1]
    /\ \A q \in Queues : \A k \in 1..Len(queues[q]) :
          /\ queues[q][k][1] \in 1..SpiralSize(step_limit)
          /\ queues[q][k][3] = 0 /\ queues[q][k][4] = 0

\* C10 witness: a filtered plan whose first item is not step 1 is cached and
\* queued.
C10_Witness ==
    /\ variant = "SpawnOnlyHexSearch" /\ ~locations.isFalse
    /\ Len(locations.val) >= 1 /\ locations.val[1][1] # 1
    /\ queues[1] # <<>>

(* ------------------- claims on _generate_locations --------------------- *)
\* the locations of the items of a plan
LocsOf(plan) == [i \in 1..Len(plan) |-> plan[i][2]]
\* how often x occurs in s
Count(x, s) == Cardinality({ i \in 1..Len(s) : s[i] = x })
\* the walk of _generate_locations is over
Walked == pc \in {"gen_rotate", "gen_enumerate", "gen_return", "gen_done"}
\* HexSearch._generate_locations has returned
Enumerated == pc \in {"gen_return", "gen_done"}

\* C11: for every step_limit N the list the walk builds has 1 + 3*N*(N-1)
\* points, and the list HexSearch._generate_locations returns is a permutation
\* of it: the same length, and every point occurs as often in both.
C11_SpiralSizeAndPermutation ==
    /\ Walked => Len(raw) = SpiralSize(step_limit)
    /\ Enumerated =>
          /\ Len(hexLocations) = Len(raw)
          /\ \A x \in Range(raw) \cup Range(LocsOf(hexLocations)) :
                Count(x, LocsOf(hexLocations)) = Count(x, raw)

\* C11 witness: a spiral of 4 rings, 37 points, returned in another order
\* than the walk's.
C11_Witness ==
    /\ Enumerated /\ step_limit = 4 /\ Len(hexLocations) = 37
    /\ LocsOf(hexLocations) # raw

\* the point the walk starts from
CenterPoint == <<scan_location.val[1], scan_location.val[2], 0>>
\* how many of the last points of the walk the claimed rotation moves to the front
ClaimedShift(n) == IF n = 3 THEN 2 ELSE IF n > 3 THEN 7 ELSE 0

\* C12: the list HexSearch._generate_locations returns is the walk's list
\* with its last 2 points moved to the front when step_limit is 3, its last 7
\* when step_limit is above 3, and unchanged when step_limit is below 3; so
\* the first item is the center exactly when step_limit is below 3.
C12_RotationLaw ==
    Enumerated =>
        LET n    == Len(raw)
            k    == ClaimedShift(step_limit)
            plan == LocsOf(hexLocations)
        IN  /\ Len(plan) = n
            /\ \A i \in 1..n : plan[i] = IF i <= k THEN raw[n - k + i] ELSE raw[i - k]
            /\ (plan[1] = CenterPoint) <=> (step_limit < 3)

\* C12 witness: with step_limit 3 the returned list starts with the last two
\* points of the walk and the center comes third.
C12_Witness ==
    /\ Enumerated /\ step_limit = 3
    /\ hexLocations[1][2] = raw[18] /\ hexLocations[2][2] = raw[19]
    /\ hexLocations[3][2] = CenterPoint

\* SpawnOnlyHexSearch._generate_locations has returned its filtered list
Filtered == pc = "gen_done" /\ variant = "SpawnOnlyHexSearch"
\* the position of an item in the list HexSearch._generate_locations returned
PosInHex(item) == CHOOSE j \in 1..Len(hexLocations) : hexLocations[j] = item

\* C13: in the list SpawnOnlyHexSearch._generate_locations returns, every
\* item is an item of the unfiltered list with a returned spawnpoint within
\* 70 m of its location; every item of the unfiltered list that is not in it
\* has no returned spawnpoint within 70 m; and the items that remain are in
\* the order they had in the unfiltered list.
C13_FilterCorrect ==
    Filtered =>
        LET plan == locations.val IN
        /\ \A i \in 1..Len(plan) :
              /\ plan[i] \in Range(hexLocations)
              /\ \E x \in spawnpoints : within70(plan[i][2], x)
        /\ \A j \in 1..Len(hexLocations) :
              hexLocations[j] \notin Range(plan) =>
                  ~(\E x \in spawnpoints : within70(hexLocations[j][2], x))
        /\ \A i \in 1..Len(plan) - 1 : PosInHex(plan[i]) < PosInHex(plan[i + 1])

\* C13 witness: with two spawnpoints returned, the filter kept several items
\* and removed others.
C13_Witness ==
    /\ Filtered /\ Cardinality(spawnpoints) = 2
    /\ Len(locations.val) >= 2 /\ Len(locations.val) < Len(hexLocations)

(* ------------------------ claims on the scheduler ---------------------- *)
\* a schedule() of SpawnOnlyHexSearch generated its plan and the store
\* returned no spawnpoint
EmptyStoreCall ==
    /\ op = "schedule" /\ variant = "SpawnOnlyHexSearch"
    /\ genInCall /\ raised = "none" /\ spawnpoints = {}

\* C14: when get_spawnpoints returns no spawnpoint, schedule() of
\* SpawnOnlyHexSearch raises nothing, stores the empty list (not the False
\* sentinel) in self.locations, finds nothing to put and puts nothing, and
\* changes no queue.
C14_EmptyStoreEmptyPlan ==
    EmptyStoreCall =>
        /\ locations = Py(<<>>)
        /\ pc \in {"put", "idle"} /\ li = 1
        /\ pushed = 0 /\ queues = expect

\* C14 witness: such a schedule() has returned, for a spiral of more than
\* one point.
C14_Witness == EmptyStoreCall /\ pc = "idle" /\ step_limit >= 2

\* C15: when scanning_paused has returned every queue is empty and no
\* exception has left it; a scanning_paused that follows a scanning_paused
\* finds every queue empty, drops nothing, raises nothing and leaves every
\* queue empty, however many times it is repeated.
C15_PauseIdempotent ==
    /\ (op = "scanning_paused" /\ pc = "idle") => (QueuesEmpty /\ raised = "none")
    /\ (op = "scanning_paused" /\ pausedBefore) =>
          /\ QueuesEmpty /\ raised = "none"
          /\ quota = 0 /\ ~discarded

\* C15 witness: a scanning_paused called right after a scanning_paused has
\* returned, on a scheduler with a cached plan.
C15_Witness ==
    /\ op = "scanning_paused" /\ pausedBefore /\ pc = "idle"
    /\ Truthy(locations)

\* C16: empty_queues never drops more items than were queued when it
\* started, and a drain that has started returns, whatever the workers do
\* meanwhile: no step of it waits for an item to arrive.
C16_DrainTerminates ==
    /\ [](quota >= 0)
    /\ (pc \in {"drain_check", "drain_get"}) ~> (pc = "idle")

\* C16 witness: a drain has returned that dropped items, and fewer than were
\* queued at its start because a worker took the others.
C16_Witness == Draining /\ pc = "idle" /\ discarded /\ gets /\ quota > 0

\* rings between two lattice points: rows apart, plus the columns left after
\* the diagonal steps, two half-columns each
RingsApart(p, c) ==
    LET dr == Abs(p[1] - c[1])
        dc == Abs(p[2] - c[2])
    IN  IF dc <= dr THEN dr ELSE dr + (dc - dr) \div 2
\* the lattice points at most r rings from c
Hexagon(c, r) ==
    { p \in { <<c[1] + a, c[2] + b, 0>> : a \in -r..r, b \in -(2 * r)..(2 * r) } :
        /\ (p[1] - c[1] + p[2] - c[2]) % 2 = 0
        /\ RingsApart(p, c) <= r }

\* C17: on the lattice, the list the walk builds for step_limit N holds
\* every lattice point at most N-1 rings from the center, the center
\* included, and holds none twice.
C17_SpiralCoversHexagon ==
    Walked =>
        /\ \A i, j \in 1..Len(raw) : i # j => raw[i] # raw[j]
        /\ Range(raw) = Hexagon(CenterPoint, step_limit - 1)

\* C17 witness: the walk for step_limit 4 is over, from the center to 37
\* different points.
C17_Witness ==
    /\ pc = "gen_rotate" /\ step_limit = 4
    /\ raw[1] = CenterPoint /\ Cardinality(Range(raw)) = 37

C19_ScheduleWritesQueueZero ==
    /\ op = "schedule" =>
          /\ \A q \in Queues \ {1} : queues[q] = expect[q]
          /\ queues[1] = expect[1]
          /\ scan_location = centerAtCall
    /\ (Draining /\ pc = "idle") => \A q \in Queues : queues[q] = <<>>

\* C19 witness: on a set of several queues, schedule() has put its plan and
\* the items are all in queue 0.
C19_Witness ==
    /\ NumQueues >= 2 /\ op = "schedule" /\ pc = "idle" /\ pushed >= 7
    /\ Len(queues[1]) >= pushed
    /\ \A q \in Queues \ {1} : queues[q] = <<>>

\* k copies of a plan, back to back
RECURSIVE Copies(_, _)
Copies(plan, k) == IF k <= 0 THEN <<>> ELSE plan \o Copies(plan, k - 1)

\* C20: schedule() only appends: while no worker takes an item and no
\* location_changed or scanning_paused runs, the k-th schedule() call in a
\* row since queue 0 was empty leaves the k-1 copies of the plan queued before
\* it in place and puts its items behind them, so that on return queue 0
\* holds k copies of the plan, k * len(plan) items.
C20_ScheduleAppendsCopies ==
    (op = "schedule" /\ streak >= 1) =>
        /\ ~locations.isFalse /\ pc \in {"put", "idle"}
        /\ queues[1] = Copies(locations.val, streak - 1) \o SubSeq(locations.val, 1, li - 1)
        /\ pc = "idle" =>
              /\ queues[1] = Copies(locations.val, streak)
              /\ Len(queues[1]) = streak * Len(locations.val)

\* C20 witness: the second schedule() in a row has returned and queue 0
\* holds two copies of a plan of several items.
C20_Witness ==
    /\ op = "schedule" /\ pc = "idle" /\ streak = 2
    /\ Len(locations.val) >= 2 /\ Len(queues[1]) = 2 * Len(locations.val)

====
